---- MODULE Spec2Model ----
(***************************************************************************)
(* The module loader (src/src/load/mod.rs): the coordinator `load`, the    *)
(* blocking loader workers `load_module` / `load_filename`, the detached   *)
(* tasks that send a module's dependency names over the mpsc channel, and  *)
(* the solver driver `solve_loaded`.                                       *)
(* The expression formatter (src/compiler/fmt/src/expr.rs): is_multiline,  *)
(* format_with_options and the fmt_* functions.                            *)
(***************************************************************************)
EXTENDS Integers, Sequences, FiniteSets, TLC

\* ------------------------------------------------------------------------
\* Bounds of the model
\* ------------------------------------------------------------------------
\* Source directories whose files all read and parse: module names are
\* 0 .. NumModules - 1, all headers together hold at most MaxEdges import
\* entries, one header at most MaxImports.
NumModules == 4
MaxEdges == 4
MaxImports == 2
\* Source directories with broken files: the same, with at most MaxBad files
\* that are missing or do not parse.
NumModulesBroken == 3
MaxEdgesBroken == 3
MaxBad == 1
\* Number of modules the caller passes in `loaded_deps`.
MaxGiven == 1
\* Length of the dependency list passed to solve_loaded.
MaxSolveDeps == 3
\* The formatter's inputs: lists of at most MaxItems items, records of at most
\* MaxFields fields, when expressions of at most MaxBranches branches, all
\* formatted at an indent of at most MaxIndentSteps steps.
MaxItems == 2
MaxFields == 2
MaxBranches == 2
MaxIndentSteps == 1

\* The most operators in a chain of binary operators
MaxChain == 3

\* The largest channel capacity tried in place of 1024
MaxCapacity == 2

\* mpsc::channel(1024)
ChannelCapacity == 1024

\* The module whose file name is given to `load`.
RootName == 0

\* What a module file on disk is: readable and well formed ("valid"),
\* unreadable ("nofile": read_to_string fails), with a header that does not
\* parse ("badheader"), or with a body that does not ("badbody": the expect
\* of process_defs panics).
BadKinds == {"nofile", "badheader", "badbody"}
FileKinds == {"valid"} \cup BadKinds

\* ------------------------------------------------------------------------
\* Import graphs
\* ------------------------------------------------------------------------
RECURSIVE EdgeSets(_, _)
EdgeSets(N, k) ==
    IF k = 0 THEN {{}}
    ELSE LET P == EdgeSets(N, k - 1)
         IN  P \cup {S \cup {e} : S \in P, e \in N \X N}

RECURSIVE KindsWithBad(_, _)
KindsWithBad(N, k) ==
    IF k = 0 THEN {[m \in N |-> "valid"]}
    ELSE LET P == KindsWithBad(N, k - 1)
         IN  P \cup {[f EXCEPT ![m] = b] : f \in P, m \in N, b \in BadKinds}

ImportsOf(N, E) == [m \in N |-> {n \in N : <<m, n>> \in E}]

\* The names reachable from the set S along imports (S included).
RECURSIVE ReachFrom(_, _)
ReachFrom(imp, S) ==
    LET T == S \cup UNION {imp[m] : m \in S}
    IN  IF T = S THEN S ELSE ReachFrom(imp, T)

\* The transitive closure of the root's imports.
RootClosure(imp) == ReachFrom(imp, imp[RootName])

Acyclic(imp) == \A m \in DOMAIN imp : m \notin ReachFrom(imp, imp[m])

\* A header that was never parsed yields no imports.
HeaderParses(k) == k \in {"valid", "badbody"}

\* The import graphs on n names with at most e entries: only modules that a
\* run reads have imports, and the names in use are the first ones.
Graphs(n, e) ==
    LET N == 0 .. (n - 1)
    IN  {imp \in {ImportsOf(N, E) : E \in EdgeSets(N, e)} :
            LET read == {RootName} \cup RootClosure(imp)
            IN  /\ read = 0 .. (Cardinality(read) - 1)
                /\ \A m \in N :
                      /\ Cardinality(imp[m]) <= MaxImports
                      /\ imp[m] # {} => m \in read}

ValidGraphs == Graphs(NumModules, MaxEdges)

BrokenGraphs == Graphs(NumModulesBroken, MaxEdgesBroken)

BrokenKinds == KindsWithBad(0 .. (NumModulesBroken - 1), MaxBad)

\* A source directory: files that no run reads are valid, and a header that
\* does not parse declares no imports.
SourceDir(imp, k) == [m \in DOMAIN imp |-> [kind |-> k[m], imports |-> imp[m]]]

IsSourceDir(imp, k) ==
    \A m \in DOMAIN imp :
       /\ k[m] # "valid" => m \in {RootName} \cup RootClosure(imp)
       /\ ~HeaderParses(k[m]) => imp[m] = {}

\* ------------------------------------------------------------------------
\* State
\* ------------------------------------------------------------------------
VARIABLES
    files,          \* the source directory: name -> [kind, imports]
    given,          \* loaded_deps as the caller passed it in
    pc,             \* where the coordinator `load` is
    workers,        \* every spawn_blocking task so far; workers[1] is the root's
    sending,        \* workers whose tokio::spawn'ed send task has not finished
    chan,           \* the mpsc channel's buffer (FIFO of DepNames)
    capacity,       \* the channel's capacity
    strong_count,   \* Arc strong count of arc_var_store
    requested_module,
    all_deps,
    pending,
    batch,          \* the workers join_all awaits
    loaded_deps,
    \* solve_loaded
    solve_args,     \* [module, loaded_deps]: the arguments of solve_loaded
    spc,            \* where solve_loaded is
    vars_by_symbol,
    dep_constraints,
    next_dep,       \* position of `for loaded_dep in loaded_deps`
    solver_runs,    \* the calls of solve::run so far: [vars_by_symbol, constraint]
    \* the formatter
    fmt_expr,       \* the expression `format` is called on
    fmt_indent,     \* the indent it is called with
    fmt_pc,         \* "idle", "call" (before the call) or "done" (after it)
    fmt_buf         \* the output buffer, a sequence of tokens

loader_vars == <<files, given, pc, workers, sending, chan, capacity, strong_count,
                 requested_module, all_deps, pending, batch, loaded_deps>>

solver_vars == <<solve_args, spc, vars_by_symbol, dep_constraints, next_dep,
                 solver_runs>>

fmt_vars == <<fmt_expr, fmt_indent, fmt_pc, fmt_buf>>

vars == <<loader_vars, solver_vars, fmt_vars>>

\* No expression is being formatted.
FormatterIdle ==
    /\ fmt_expr = <<>>
    /\ fmt_indent = 0
    /\ fmt_pc = "idle"
    /\ fmt_buf = <<>>

Worker(name) == [name |-> name, st |-> "read", res |-> "none", sent |-> 0]

Entry(name, res) == [name |-> name, result |-> res]

\* The i-th smallest name of a set of names.
Nth(S, i) == CHOOSE x \in S : Cardinality({y \in S : y < x}) = i - 1

\* The state once `load` has spawned the root's worker (lines 86-96), in the
\* source directory `dir`, for a caller that passes the list `g` as loaded_deps.
InitLoad(dir, g) ==
    /\ files = dir
    /\ given = g
    /\ loaded_deps = g
    /\ pc = "await_root"
    /\ workers = <<Worker(RootName)>>
    /\ sending = {}
    /\ chan = <<>>
    /\ capacity = ChannelCapacity
    /\ strong_count = 2
    /\ requested_module = "none"
    /\ all_deps = {}
    /\ pending = 0
    /\ batch = {}
    /\ solve_args = <<>>
    /\ spc = "not_called"
    /\ vars_by_symbol = <<>>
    /\ dep_constraints = <<>>
    /\ next_dep = 1
    /\ solver_runs = <<>>
    /\ FormatterIdle

\* Every file reads and parses; the dependency list starts empty.
Init ==
    \E imp \in ValidGraphs :
       InitLoad(SourceDir(imp, [m \in DOMAIN imp |-> "valid"]), <<>>)

\* Some files are broken.
InitBroken ==
    \E imp \in BrokenGraphs, k \in BrokenKinds :
       /\ IsSourceDir(imp, k)
       /\ InitLoad(SourceDir(imp, k), <<>>)

\* The caller passes modules it has loaded before.
InitGiven ==
    \E imp \in ValidGraphs :
       \E G \in {S \in SUBSET RootClosure(imp) : Cardinality(S) <= MaxGiven} :
          InitLoad(SourceDir(imp, [m \in DOMAIN imp |-> "valid"]),
                   [i \in 1 .. Cardinality(G) |-> Entry(Nth(G, i), "Valid")])

\* ------------------------------------------------------------------------
\* Loader workers (load_module -> load_filename), one spawn_blocking each
\* ------------------------------------------------------------------------
Return(w, res) ==
    /\ workers' = [workers EXCEPT ![w].st = "returned", ![w].res = res]
    /\ strong_count' = strong_count - 1

\* read_to_string, module::module().parse, the load_import loop and the
\* tokio::spawn of the send task: the worker up to the call of process_defs
WorkerHeader(w) ==
    /\ workers[w].st = "read"
    /\ IF files[workers[w].name].kind = "nofile"
       THEN /\ Return(w, "FileProblem")
            /\ UNCHANGED sending
       ELSE IF files[workers[w].name].kind = "badheader"
       THEN /\ Return(w, "ParsingFailed")
            /\ UNCHANGED sending
       ELSE /\ workers' = [workers EXCEPT ![w].st = "defs"]
            /\ sending' = sending \cup {w}
            /\ UNCHANGED strong_count
    /\ UNCHANGED <<fmt_vars, solver_vars, files, given, pc, chan, capacity, requested_module,
                   all_deps, pending, batch, loaded_deps>>

\* As WorkerDefs, for a worker that makes the send itself: it goes on only
\* once its message is in the channel.
WorkerDefs_after_send(w) ==
    /\ workers[w].st = "defs"
    /\ w \notin sending
    /\ IF files[workers[w].name].kind = "badbody"
       THEN Return(w, "JoinError")
       ELSE Return(w, "Valid")
    /\ UNCHANGED <<fmt_vars, solver_vars, files, given, pc, sending, chan, capacity, requested_module,
                   all_deps, pending, batch, loaded_deps>>

\* process_defs and the return of LoadedModule::Valid; a panic in process_defs
\* reaches the coordinator as a JoinError
WorkerDefs(w) ==
    /\ workers[w].st = "defs"
    /\ IF files[workers[w].name].kind = "badbody"
       THEN Return(w, "JoinError")
       ELSE Return(w, "Valid")
    /\ UNCHANGED <<fmt_vars, solver_vars, files, given, pc, sending, chan, capacity, requested_module,
                   all_deps, pending, batch, loaded_deps>>

\* The receiver lives as long as `load` runs.
ReceiverAlive == pc \notin {"done", "panic"}

\* tx.send(deps).await.unwrap() in the detached task: waits for room in the
\* channel; when the receiver is gone the send fails and the task panics
SendDeps(w) ==
    /\ w \in sending
    /\ IF ReceiverAlive
       THEN /\ Len(chan) < capacity
            /\ chan' = Append(chan, files[workers[w].name].imports)
            /\ workers' = [workers EXCEPT ![w].sent = @ + 1]
       ELSE UNCHANGED <<chan, workers>>
    /\ sending' = sending \ {w}
    /\ UNCHANGED <<fmt_vars, solver_vars, files, given, pc, capacity, strong_count, requested_module,
                   all_deps, pending, batch, loaded_deps>>

\* ------------------------------------------------------------------------
\* The coordinator (load)
\* ------------------------------------------------------------------------
\* handle.await.unwrap_or_else(panic), then all_deps, env and pending are set
AwaitRoot ==
    /\ pc = "await_root"
    /\ workers[1].st = "returned"
    /\ IF workers[1].res = "JoinError"
       THEN /\ pc' = "panic"
            /\ UNCHANGED <<requested_module, all_deps, pending>>
       ELSE /\ requested_module' = workers[1].res
            /\ all_deps' = {}
            /\ pending' = 1
            /\ pc' = "recv"
    /\ UNCHANGED <<fmt_vars, solver_vars, files, given, workers, sending, chan, capacity, strong_count,
                   batch, loaded_deps>>

\* As deps_to_load, without the relative complement.
deps_to_load_all(module_deps, seen) == module_deps

\* module_deps.relative_complement(all_deps.clone())
deps_to_load(module_deps, seen) == module_deps \ seen

\* As next_pending, without the `- 1` for the module that reported.
next_pending_no_report(p, n) == p + n

\* As next_pending, without the modules gained.
next_pending_no_gain(p, n) == p - 1

\* As next_pending, counting only a message that names a new module.
next_pending_new_only(p, n) == IF n = 0 THEN p ELSE p + n - 1

\* pending + deps_to_load.len() - 1
next_pending(p, n) == p + n - 1

\* rx.recv().await yields a message; the body of the loop up to the spawns.
\* recv() yields None only when every Sender is dropped, and `tx` stays
\* alive in `load` for the whole loop, so there is no None branch to take.
Recv ==
    /\ pc = "recv"
    /\ chan # <<>>
    /\ LET dtl == deps_to_load(Head(chan), all_deps)
       IN  /\ pending' = next_pending(pending, Cardinality(dtl))
           /\ all_deps' = all_deps \cup dtl
           /\ strong_count' = strong_count + Cardinality(dtl)
           /\ workers' = workers \o [i \in 1 .. Cardinality(dtl) |-> Worker(Nth(dtl, i))]
           /\ batch' = {Len(workers) + i : i \in 1 .. Cardinality(dtl)}
    /\ chan' = Tail(chan)
    /\ pc' = "join"
    /\ UNCHANGED <<fmt_vars, solver_vars, files, given, sending, capacity, requested_module, loaded_deps>>

\* As join_ready, for a coordinator that does not await the batch.
join_ready_at_once(b) == TRUE

\* As join_ready, for a coordinator that goes on as soon as one worker of
\* the batch has returned.
join_ready_any(b) == b = {} \/ \E w \in b : workers[w].st = "returned"

\* join_all resolves once every future of the batch has
join_ready(b) == \A w \in b : workers[w].st = "returned"

\* deps_to_load.into_iter(): the set is iterated in one fixed order of the
\* names (its hash order); the names being arbitrary, it is their order here.
\* join_all yields the results in that order.
iter_order(b) == [i \in 1 .. Cardinality(b) |-> Nth(b, i)]

\* As pushed, stopping at the first module that is not Valid.
RECURSIVE pushed_until_failure(_)
pushed_until_failure(b) ==
    IF b = <<>> \/ workers[Head(b)].res # "Valid" THEN <<>>
    ELSE <<Entry(workers[Head(b)].name, workers[Head(b)].res)>>
            \o pushed_until_failure(Tail(b))

\* The results pushed by `for module in loaded_modules { push(module.expect) }`
\* when join_all yields the batch in the order b: everything before the first
\* JoinError.
RECURSIVE pushed(_)
pushed(b) ==
    IF b = <<>> \/ workers[Head(b)].res = "JoinError" THEN <<>>
    ELSE <<Entry(workers[Head(b)].name, workers[Head(b)].res)>> \o pushed(Tail(b))

\* join_all(...).await, the push loop, and the `if pending == 0 { break }`
JoinAll ==
    /\ pc = "join"
    /\ join_ready(batch)
    /\ loaded_deps' = loaded_deps \o pushed(iter_order(batch))
    /\ pc' = IF \E w \in batch : workers[w].res = "JoinError"
               THEN "panic"
             ELSE IF pending = 0 THEN "unwrap" ELSE "recv"
    /\ UNCHANGED <<fmt_vars, solver_vars, files, given, workers, sending, chan, capacity, strong_count,
                   requested_module, all_deps, pending, batch>>

\* Arc::try_unwrap(arc_var_store).expect(..): Ok only for the sole owner
Reclaim ==
    /\ pc = "unwrap"
    /\ IF strong_count = 1
       THEN /\ pc' = "done"
            /\ strong_count' = 0
       ELSE /\ pc' = "panic"
            /\ UNCHANGED strong_count
    /\ UNCHANGED <<fmt_vars, solver_vars, files, given, workers, sending, chan, capacity,
                   requested_module, all_deps, pending, batch, loaded_deps>>

Next ==
    \/ \E w \in DOMAIN workers : WorkerHeader(w)
    \/ \E w \in DOMAIN workers : WorkerDefs(w)
    \/ \E w \in DOMAIN workers : SendDeps(w)
    \/ AwaitRoot
    \/ Recv
    \/ JoinAll
    \/ Reclaim

Spec == Init /\ [][Next]_vars

\* ------------------------------------------------------------------------
\* The solver driver (solve_loaded)
\* ------------------------------------------------------------------------
\* Symbols are <<module, identifier>>, fully qualified; the module n owns the
\* type variables 10 * n + 1 .. 10 * n + 4.
Declare(pattern_vars) == [kind |-> "Declare", pattern_vars |-> pattern_vars]

DeclareRec(defs) == [kind |-> "DeclareRec", defs |-> defs]

InvalidCycle == [kind |-> "InvalidCycle"]

\* A canonicalized module n: one exposed import, a definition `x`, a
\* recursive group `f`, `g`, and, when `cyclic`, an invalid cycle.  `name` is
\* <<n>> for an interface module (Some) and <<>> for an app module (None).
Module(n, named, cyclic) ==
    [name |-> IF named THEN <<n>> ELSE <<>>,
     exposed_imports |-> (<<n, "imported">> :> 10 * n + 1),
     declarations |->
        <<Declare(<<n, "x">> :> 10 * n + 2),
          DeclareRec(<< (<<n, "f">> :> 10 * n + 3), (<<n, "g">> :> 10 * n + 4) >>)>>
        \o (IF cyclic THEN <<InvalidCycle>> ELSE <<>>),
     constraint |-> <<"constraint", n>>]

\* The LoadedModule values that can stand at position n of a dependency list.
LoadedModules(n) ==
    {[result |-> "Valid", module |-> Module(n, named, cyclic)] :
        named \in BOOLEAN, cyclic \in BOOLEAN}
    \cup {[result |-> "FileProblem", filename |-> n],
          [result |-> "ParsingFailed", filename |-> n]}

RECURSIVE DepLists(_)
DepLists(len) ==
    IF len = 0 THEN {<<>>}
    ELSE {Append(l, e) : l \in DepLists(len - 1), e \in LoadedModules(len)}

\* solve_loaded is called with the module 0 and a list of up to MaxSolveDeps
\* loaded modules; `load` is not running.
InitSolve ==
    /\ \E cyclic \in BOOLEAN, len \in 0 .. MaxSolveDeps :
          \E deps \in DepLists(len) :
             solve_args = [module |-> Module(RootName, FALSE, cyclic),
                           loaded_deps |-> deps]
    /\ spc = "seed"
    /\ vars_by_symbol = <<>>
    /\ dep_constraints = <<>>
    /\ next_dep = 1
    /\ solver_runs = <<>>
    /\ files = <<>>
    /\ given = <<>>
    /\ loaded_deps = <<>>
    /\ pc = "done"
    /\ workers = <<>>
    /\ sending = {}
    /\ chan = <<>>
    /\ capacity = ChannelCapacity
    /\ strong_count = 0
    /\ requested_module = "Valid"
    /\ all_deps = {}
    /\ pending = 0
    /\ batch = {}
    /\ FormatterIdle

\* insert_all(&mut map, pairs): later insertions replace earlier ones
insert_all(map, pairs) == pairs @@ map

\* As pattern_vars_of, taking only the first definition of a recursive group.
pattern_vars_of_first(decl) ==
    IF decl.kind = "Declare" THEN decl.pattern_vars ELSE decl.defs[1]

\* The pattern variables the match on a declaration inserts: those of the
\* definition of a Declare, those of every definition of a DeclareRec.
RECURSIVE all_pattern_vars(_)
all_pattern_vars(defs) ==
    IF defs = <<>> THEN <<>>
    ELSE insert_all(Head(defs), all_pattern_vars(Tail(defs)))

pattern_vars_of(decl) ==
    IF decl.kind = "Declare" THEN decl.pattern_vars ELSE all_pattern_vars(decl.defs)

has_invalid_cycle(m) ==
    \E i \in DOMAIN m.declarations : m.declarations[i].kind = "InvalidCycle"

\* vars_by_symbol after the exposed imports of m and the pattern variables of
\* its declarations are inserted (in a module without invalid cycle).
RECURSIVE with_declarations(_, _)
with_declarations(map, decls) ==
    IF decls = <<>> THEN map
    ELSE with_declarations(insert_all(map, pattern_vars_of(Head(decls))), Tail(decls))

with_module(map, m) ==
    with_declarations(insert_all(map, m.exposed_imports), m.declarations)

\* The exposed imports and top-level defs of the primary module (lines
\* 376-397)
SolveSeed ==
    /\ spc = "seed"
    /\ IF has_invalid_cycle(solve_args.module)
       THEN /\ spc' = "panic"
            /\ UNCHANGED vars_by_symbol
       ELSE /\ vars_by_symbol' = with_module(<<>>, solve_args.module)
            /\ spc' = "deps"
    /\ UNCHANGED <<fmt_vars, loader_vars, solve_args, dep_constraints, next_dep, solver_runs>>

\* As broken_dep, for a driver that passes over a dependency that is not Valid.
broken_dep_skipped(dep) ==
    /\ next_dep' = next_dep + 1
    /\ UNCHANGED <<spc, vars_by_symbol, dep_constraints>>

\* The arms `broken @ FileProblem { .. }` and `broken @ ParsingFailed { .. }`
broken_dep(dep) ==
    /\ spc' = "panic"
    /\ UNCHANGED <<vars_by_symbol, dep_constraints, next_dep>>

\* The arm `Valid(valid_dep)`: its symbols are inserted, its name unwrapped
\* and its constraint pushed
valid_dep(m) ==
    IF has_invalid_cycle(m) \/ m.name = <<>>
    THEN /\ spc' = "panic"
         /\ UNCHANGED <<vars_by_symbol, dep_constraints, next_dep>>
    ELSE /\ vars_by_symbol' = with_module(vars_by_symbol, m)
         /\ dep_constraints' = Append(dep_constraints, <<m.name[1], m.constraint>>)
         /\ next_dep' = next_dep + 1
         /\ UNCHANGED spc

\* One turn of `for loaded_dep in loaded_deps` (lines 404-445), or its end
SolveAddDep ==
    /\ spc = "deps"
    /\ IF next_dep > Len(solve_args.loaded_deps)
       THEN /\ spc' = "solve_deps"
            /\ UNCHANGED <<vars_by_symbol, dep_constraints, next_dep>>
       ELSE LET dep == solve_args.loaded_deps[next_dep]
            IN  IF dep.result = "Valid" THEN valid_dep(dep.module) ELSE broken_dep(dep)
    /\ UNCHANGED <<fmt_vars, loader_vars, solve_args, solver_runs>>

\* solve::run(&vars_by_symbol, subs_by_module, problems, subs, &constraint)
solve_run(constraint) ==
    Append(solver_runs, [vars_by_symbol |-> vars_by_symbol, constraint |-> constraint])

\* One turn of `for (_module_name, dep_constraint) in dep_constraints`
\* (lines 447-457), or its end
SolveRunDep ==
    /\ spc = "solve_deps"
    /\ IF dep_constraints = <<>>
       THEN /\ spc' = "solve_primary"
            /\ UNCHANGED <<dep_constraints, solver_runs>>
       ELSE /\ solver_runs' = solve_run(Head(dep_constraints)[2])
            /\ dep_constraints' = Tail(dep_constraints)
            /\ UNCHANGED spc
    /\ UNCHANGED <<fmt_vars, loader_vars, solve_args, vars_by_symbol, next_dep>>

\* The last solve::run, on the primary module's constraint (lines 459-467)
SolveRunPrimary ==
    /\ spc = "solve_primary"
    /\ solver_runs' = solve_run(solve_args.module.constraint)
    /\ spc' = "returned"
    /\ UNCHANGED <<fmt_vars, loader_vars, solve_args, vars_by_symbol, dep_constraints, next_dep>>

NextSolve ==
    \/ SolveSeed
    \/ SolveAddDep
    \/ SolveRunDep
    \/ SolveRunPrimary

SpecSolve == InitSolve /\ [][NextSolve]_vars

\* Blocking workers run on the thread pool, detached send tasks and the
\* coordinator on the executor: whatever can run eventually does.
FairSpec == Spec /\ WF_vars(Next)

SpecBroken == InitBroken /\ [][Next]_vars

SpecGiven == InitGiven /\ [][Next]_vars

\* As Init, with a channel of a small capacity: mpsc::channel(cap)
InitCapacity ==
    \E imp \in ValidGraphs, cap \in 1 .. MaxCapacity :
       /\ files = SourceDir(imp, [m \in DOMAIN imp |-> "valid"])
       /\ given = <<>>
       /\ loaded_deps = <<>>
       /\ pc = "await_root"
       /\ workers = <<Worker(RootName)>>
       /\ sending = {}
       /\ chan = <<>>
       /\ capacity = cap
       /\ strong_count = 2
       /\ requested_module = "none"
       /\ all_deps = {}
       /\ pending = 0
       /\ batch = {}
       /\ solve_args = <<>>
       /\ spc = "not_called"
       /\ vars_by_symbol = <<>>
       /\ dep_constraints = <<>>
       /\ next_dep = 1
       /\ solver_runs = <<>>
       /\ FormatterIdle

\* The executor runs every task that can run
FairSpecCapacity == InitCapacity /\ [][Next]_vars /\ WF_vars(Next)

\* ------------------------------------------------------------------------
\* The expression formatter (compiler/fmt/src/expr.rs): the syntax tree
\* ------------------------------------------------------------------------
\* CommentOrNewline
Newline == [kind |-> "Newline"]

LineComment(text) == [kind |-> "LineComment", text |-> text]

DocComment(text) == [kind |-> "DocComment", text |-> text]

\* Expr, one constructor per variant.  A Located<Expr> is its value; the
\* regions only matter for the patterns of a when branch.
SpaceBefore(sub_expr, spaces) ==
    [tag |-> "SpaceBefore", expr |-> sub_expr, spaces |-> spaces]

SpaceAfter(sub_expr, spaces) ==
    [tag |-> "SpaceAfter", expr |-> sub_expr, spaces |-> spaces]

Float(string) == [tag |-> "Float", string |-> string]

Num(string) == [tag |-> "Num", string |-> string]

NonBase10Int(base, string, is_negative) ==
    [tag |-> "NonBase10Int", base |-> base, string |-> string,
     is_negative |-> is_negative]

Access(sub_expr, key) == [tag |-> "Access", expr |-> sub_expr, key |-> key]

AccessorFunction(key) == [tag |-> "AccessorFunction", key |-> key]

Var(module_name, ident) ==
    [tag |-> "Var", module_name |-> module_name, ident |-> ident]

MalformedIdent == [tag |-> "MalformedIdent"]

MalformedClosure == [tag |-> "MalformedClosure"]

GlobalTag(string) == [tag |-> "GlobalTag", string |-> string]

PrivateTag(string) == [tag |-> "PrivateTag", string |-> string]

\* Defs(defs, ret): a definition is the text fmt_def renders for it.
Defs(defs, ret) == [tag |-> "Defs", defs |-> defs, ret |-> ret]

\* WhenBranch: `guard` is <<>> (None) or <<expr>> (Some).
WhenBranch(patterns, guard, value) ==
    [patterns |-> patterns, guard |-> guard, value |-> value]

When(loc_condition, branches) ==
    [tag |-> "When", loc_condition |-> loc_condition, branches |-> branches]

List(items, final_comments) ==
    [tag |-> "List", items |-> items, final_comments |-> final_comments]

\* StrLiteral and StrSegment
PlainLine(string) == [kind |-> "PlainLine", string |-> string]

Line(segments) == [kind |-> "Line", segments |-> segments]

Block(lines) == [kind |-> "Block", lines |-> lines]

Plaintext(string) == [seg |-> "Plaintext", string |-> string]

Unicode(string) == [seg |-> "Unicode", string |-> string]

EscapedChar(escaped) == [seg |-> "EscapedChar", escaped |-> escaped]

Interpolated(loc_expr) == [seg |-> "Interpolated", expr |-> loc_expr]

Str(literal) == [tag |-> "Str", literal |-> literal]

Apply(loc_expr, args) == [tag |-> "Apply", expr |-> loc_expr, args |-> args]

If(loc_condition, loc_then, loc_else) ==
    [tag |-> "If", loc_condition |-> loc_condition, loc_then |-> loc_then,
     loc_else |-> loc_else]

BinOp(loc_left, bin_op, loc_right) ==
    [tag |-> "BinOp", left |-> loc_left, op |-> bin_op, right |-> loc_right]

UnaryOp(loc_subexpr, unary_op) ==
    [tag |-> "UnaryOp", expr |-> loc_subexpr, op |-> unary_op]

PrecedenceConflict(loc_subexpr) ==
    [tag |-> "PrecedenceConflict", expr |-> loc_subexpr]

ParensAround(subexpr) == [tag |-> "ParensAround", expr |-> subexpr]

Nested(subexpr) == [tag |-> "Nested", expr |-> subexpr]

Closure(loc_patterns, loc_body) ==
    [tag |-> "Closure", patterns |-> loc_patterns, body |-> loc_body]

\* Record: `update` is <<>> (None) or <<expr>> (Some).
Record(fields, update, final_comments) ==
    [tag |-> "Record", fields |-> fields, update |-> update,
     final_comments |-> final_comments]

\* AssignedField
RequiredValue(name, spaces, ann) ==
    [tag |-> "RequiredValue", name |-> name, spaces |-> spaces, ann |-> ann]

OptionalValue(name, spaces, ann) ==
    [tag |-> "OptionalValue", name |-> name, spaces |-> spaces, ann |-> ann]

LabelOnly(name) == [tag |-> "LabelOnly", name |-> name]

FieldSpaceBefore(sub_field, spaces) ==
    [tag |-> "SpaceBefore", field |-> sub_field, spaces |-> spaces]

FieldSpaceAfter(sub_field, spaces) ==
    [tag |-> "SpaceAfter", field |-> sub_field, spaces |-> spaces]

Malformed(raw) == [tag |-> "Malformed", raw |-> raw]

\* A located identifier pattern: its name and the line of its region.
IdentPattern(name, line) ==
    [name |-> name, start_line |-> line, end_line |-> line]

\* ------------------------------------------------------------------------
\* The formatter's collaborators (spaces.rs, pattern.rs, def.rs,
\* annotation.rs).  The buffer is a sequence of tokens: "\n", " " (one
\* space), and the punctuation, keywords and texts the formatter pushes.
\* ------------------------------------------------------------------------
\* One indentation step is four spaces.
INDENT == 4

add_spaces(spaces) == [i \in 1 .. spaces |-> " "]

\* A line break followed by `indent` spaces.
newline(indent) == <<"\n">> \o add_spaces(indent)

\* The comment text goes without its `#`.
fmt_comment(space) ==
    IF space.kind = "LineComment" THEN <<"#", space.text>> ELSE <<"##", space.text>>

is_newline(space) == space.kind = "Newline"

\* The comments of `spaces` and no newline item: with NewlineAt::Top every
\* comment gets a leading newline, with NewlineAt::Bottom a trailing one.
RECURSIVE comments_only_from(_, _, _, _)
comments_only_from(spaces, new_line_at, indent, comment_seen) ==
    IF spaces = <<>>
      THEN IF comment_seen /\ new_line_at \in {"Bottom", "Both"}
             THEN newline(indent) ELSE <<>>
    ELSE IF is_newline(Head(spaces))
      THEN comments_only_from(Tail(spaces), new_line_at, indent, comment_seen)
    ELSE (IF comment_seen \/ new_line_at \in {"Top", "Both"}
            THEN newline(indent) ELSE <<>>)
         \o fmt_comment(Head(spaces))
         \o comments_only_from(Tail(spaces), new_line_at, indent, TRUE)

fmt_comments_only(spaces, new_line_at, indent) ==
    comments_only_from(spaces, new_line_at, indent, FALSE)

\* Newlines and comments: a comment forces a newline after it, a run of
\* newline items keeps at most one blank line, and newline items after a
\* comment add nothing.
RECURSIVE spaces_from(_, _, _, _)
spaces_from(spaces, indent, consecutive_newlines, encountered_comment) ==
    IF spaces = <<>> THEN <<>>
    ELSE IF is_newline(Head(spaces))
      THEN IF ~encountered_comment /\ consecutive_newlines < 2
             THEN (IF Len(spaces) > 1 /\ is_newline(spaces[2])
                     THEN <<"\n">> ELSE newline(indent))
                  \o spaces_from(Tail(spaces), indent, consecutive_newlines + 1,
                                 encountered_comment)
           ELSE spaces_from(Tail(spaces), indent, consecutive_newlines,
                            encountered_comment)
    ELSE fmt_comment(Head(spaces)) \o newline(indent)
         \o spaces_from(Tail(spaces), indent, consecutive_newlines, TRUE)

fmt_spaces(spaces, indent) == spaces_from(spaces, indent, 0, FALSE)

\* Pattern: identifier patterns render as their name on one line.
fmt_pattern(pattern, indent) == <<pattern.name>>

pattern_is_multiline(pattern) == FALSE

\* A definition renders as its text.
fmt_def(def, indent) == <<def>>

\* Flattening of a sequence of sequences.
RECURSIVE Concat(_)
Concat(seqs) == IF seqs = <<>> THEN <<>> ELSE Head(seqs) \o Concat(Tail(seqs))

\* ------------------------------------------------------------------------
\* Expr::is_multiline
\* ------------------------------------------------------------------------
RECURSIVE is_multiline(_)

\* AssignedField::is_multiline: a wrapped field, a field with spaces before
\* its separator, or a field whose value is multiline.
field_is_multiline(field) ==
    CASE field.tag \in {"RequiredValue", "OptionalValue"} ->
            field.spaces # <<>> \/ is_multiline(field.ann)
      [] field.tag \in {"SpaceBefore", "SpaceAfter"} -> TRUE
      [] OTHER -> FALSE

\* A variant of is_multiline whose BinOp arm leaves out the right operand
\* and keeps the look-ahead and the left operand.
is_multiline_left_only(expr) ==
    CASE expr.tag \in {"SpaceBefore", "SpaceAfter"} -> TRUE
      [] expr.tag \in {"Float", "Num", "NonBase10Int", "Access", "AccessorFunction",
                       "Var", "MalformedIdent", "MalformedClosure", "GlobalTag",
                       "PrivateTag"} -> FALSE
      [] expr.tag \in {"Defs", "When"} -> TRUE
      [] expr.tag = "List" ->
            \E i \in DOMAIN expr.items : is_multiline(expr.items[i])
      [] expr.tag = "Str" ->
            IF expr.literal.kind \in {"PlainLine", "Line"} THEN FALSE
            ELSE Len(expr.literal.lines) > 1
      [] expr.tag = "Apply" ->
            is_multiline(expr.expr)
               \/ \E i \in DOMAIN expr.args : is_multiline(expr.args[i])
      [] expr.tag = "If" ->
            is_multiline(expr.loc_condition) \/ is_multiline(expr.loc_then)
               \/ is_multiline(expr.loc_else)
      [] expr.tag = "BinOp" ->
            LET next_is_multiline_bin_op ==
                   IF expr.right.tag = "BinOp" THEN is_multiline(expr.right.right)
                   ELSE FALSE
            IN  next_is_multiline_bin_op \/ is_multiline(expr.left)
      [] expr.tag \in {"UnaryOp", "PrecedenceConflict"} -> is_multiline(expr.expr)
      [] expr.tag \in {"ParensAround", "Nested"} -> is_multiline(expr.expr)
      [] expr.tag = "Closure" ->
            is_multiline(expr.body)
               \/ \E i \in DOMAIN expr.patterns : pattern_is_multiline(expr.patterns[i])
      [] expr.tag = "Record" ->
            \E i \in DOMAIN expr.fields : field_is_multiline(expr.fields[i])

is_multiline(expr) ==
    CASE expr.tag \in {"SpaceBefore", "SpaceAfter"} -> TRUE
      [] expr.tag \in {"Float", "Num", "NonBase10Int", "Access", "AccessorFunction",
                       "Var", "MalformedIdent", "MalformedClosure", "GlobalTag",
                       "PrivateTag"} -> FALSE
      [] expr.tag \in {"Defs", "When"} -> TRUE
      [] expr.tag = "List" ->
            \E i \in DOMAIN expr.items : is_multiline(expr.items[i])
      [] expr.tag = "Str" ->
            IF expr.literal.kind \in {"PlainLine", "Line"} THEN FALSE
            ELSE Len(expr.literal.lines) > 1
      [] expr.tag = "Apply" ->
            is_multiline(expr.expr)
               \/ \E i \in DOMAIN expr.args : is_multiline(expr.args[i])
      [] expr.tag = "If" ->
            is_multiline(expr.loc_condition) \/ is_multiline(expr.loc_then)
               \/ is_multiline(expr.loc_else)
      [] expr.tag = "BinOp" ->
            LET next_is_multiline_bin_op ==
                   IF expr.right.tag = "BinOp" THEN is_multiline(expr.right.right)
                   ELSE FALSE
            IN  next_is_multiline_bin_op \/ is_multiline(expr.left)
                   \/ is_multiline(expr.right)
      [] expr.tag \in {"UnaryOp", "PrecedenceConflict"} -> is_multiline(expr.expr)
      [] expr.tag \in {"ParensAround", "Nested"} -> is_multiline(expr.expr)
      [] expr.tag = "Closure" ->
            is_multiline(expr.body)
               \/ \E i \in DOMAIN expr.patterns : pattern_is_multiline(expr.patterns[i])
      [] expr.tag = "Record" ->
            \E i \in DOMAIN expr.fields : field_is_multiline(expr.fields[i])

\* ------------------------------------------------------------------------
\* Expr::format_with_options and its helpers: each yields the tokens the
\* call appends to the buffer
\* ------------------------------------------------------------------------
RECURSIVE format_with_options(_, _, _, _), fmt_bin_op(_, _, _, _, _, _),
          fmt_list(_, _, _), fmt_when(_, _, _), fmt_if(_, _, _, _),
          fmt_closure(_, _, _), fmt_record(_, _, _, _),
          format_field_multiline(_, _, _)

\* buf.push_str(string): an empty string appends nothing
push_str(string) == IF string = "" THEN <<>> ELSE <<string>>

\* Formattable::format: parens are not needed, newlines are formatted
format(expr, indent) == format_with_options(expr, "NotNeeded", "Yes", indent)

\* AssignedField::format_with_options, as the one-line record calls it:
\* the name, the separator and the value; comments only, for a wrapped field
RECURSIVE field_format_with_options(_, _, _, _)
field_format_with_options(field, parens, newlines, indent) ==
    CASE field.tag = "RequiredValue" ->
            <<field.name>> \o fmt_spaces(field.spaces, indent) \o <<":", " ">>
               \o format(field.ann, indent)
      [] field.tag = "OptionalValue" ->
            <<field.name>> \o fmt_spaces(field.spaces, indent) \o <<"?", " ">>
               \o format(field.ann, indent)
      [] field.tag = "LabelOnly" -> <<field.name>>
      [] field.tag = "SpaceBefore" ->
            fmt_comments_only(field.spaces, "Bottom", indent)
               \o field_format_with_options(field.field, parens, newlines, indent)
      [] field.tag = "SpaceAfter" ->
            field_format_with_options(field.field, parens, newlines, indent)
               \o fmt_comments_only(field.spaces, "Bottom", indent)
      [] OTHER -> push_str(field.raw)

format_str_segment(seg, indent) ==
    CASE seg.seg = "Plaintext" -> push_str(seg.string)
      [] seg.seg = "Unicode" -> <<"\\u(">> \o push_str(seg.string) \o <<")">>
      [] seg.seg = "EscapedChar" -> <<"\\", seg.escaped>>
      [] seg.seg = "Interpolated" ->
            <<"\\(">> \o format_with_options(seg.expr, "NotNeeded", "No", indent)
               \o <<")">>

\* The segments of one line of a string
format_segments(segments, indent) ==
    Concat([i \in DOMAIN segments |-> format_str_segment(segments[i], indent)])

\* The match on StrLiteral
format_str_literal(literal, indent) ==
    CASE literal.kind = "PlainLine" -> push_str(literal.string)
      [] literal.kind = "Line" -> format_segments(literal.segments, 0)
      [] literal.kind = "Block" ->
            <<"\"\"">>
               \o (IF Len(literal.lines) > 1
                     THEN newline(indent)
                             \o Concat([i \in DOMAIN literal.lines |->
                                   format_segments(literal.lines[i], indent)
                                      \o newline(indent)])
                   ELSE Concat([i \in DOMAIN literal.lines |->
                                   format_segments(literal.lines[i], indent)]))
               \o <<"\"\"">>

bin_op_token(bin_op) ==
    CASE bin_op = "Caret" -> "^"
      [] bin_op = "Star" -> "*"
      [] bin_op = "Slash" -> "/"
      [] bin_op = "DoubleSlash" -> "//"
      [] bin_op = "Percent" -> "%"
      [] bin_op = "DoublePercent" -> "%%"
      [] bin_op = "Plus" -> "+"
      [] bin_op = "Minus" -> "-"
      [] bin_op = "Equals" -> "=="
      [] bin_op = "NotEquals" -> "!="
      [] bin_op = "LessThan" -> "<"
      [] bin_op = "GreaterThan" -> ">"
      [] bin_op = "LessThanOrEq" -> "<="
      [] bin_op = "GreaterThanOrEq" -> ">="
      [] bin_op = "And" -> "&&"
      [] bin_op = "Or" -> "||"
      [] bin_op = "Pizza" -> "|>"

base_prefix(base) ==
    CASE base = "Hex" -> <<"0x">>
      [] base = "Octal" -> <<"0o">>
      [] base = "Binary" -> <<"0b">>
      [] base = "Decimal" -> <<>>

\* Two newline items in the spaces before the expression
RECURSIVE empty_line_before_expr(_)
empty_line_before_expr(expr) ==
    CASE expr.tag = "SpaceBefore" ->
            Cardinality({i \in DOMAIN expr.spaces : is_newline(expr.spaces[i])}) >= 2
      [] expr.tag = "Nested" -> empty_line_before_expr(expr.expr)
      [] OTHER -> FALSE

format_with_options(expr, parens, newlines, indent) ==
    LET format_newlines == newlines = "Yes"
        apply_needs_parens == parens = "InApply"
    IN
    CASE expr.tag = "SpaceBefore" ->
            (IF format_newlines THEN fmt_spaces(expr.spaces, indent)
             ELSE fmt_comments_only(expr.spaces, "Bottom", indent))
               \o format_with_options(expr.expr, parens, newlines, indent)
      [] expr.tag = "SpaceAfter" ->
            format_with_options(expr.expr, parens, newlines, indent)
               \o (IF format_newlines THEN fmt_spaces(expr.spaces, indent)
                   ELSE fmt_comments_only(expr.spaces, "Bottom", indent))
      [] expr.tag = "ParensAround" ->
            <<"(">> \o format_with_options(expr.expr, "NotNeeded", "Yes", indent)
               \o <<")">>
      [] expr.tag = "Str" ->
            <<"\"">> \o format_str_literal(expr.literal, indent) \o <<"\"">>
      [] expr.tag = "Var" ->
            (IF expr.module_name # "" THEN <<expr.module_name, ".">> ELSE <<>>)
               \o push_str(expr.ident)
      [] expr.tag = "Apply" ->
            LET multiline_args == \E i \in DOMAIN expr.args : is_multiline(expr.args[i])
                arg_indent == indent + INDENT
            IN  (IF apply_needs_parens THEN <<"(">> ELSE <<>>)
                   \o format_with_options(expr.expr, "InApply", "Yes", indent)
                   \o (IF multiline_args
                         THEN Concat([i \in DOMAIN expr.args |->
                                 newline(arg_indent)
                                    \o format_with_options(expr.args[i], "InApply", "No",
                                                           arg_indent)])
                       ELSE Concat([i \in DOMAIN expr.args |->
                                 <<" ">> \o format_with_options(expr.args[i], "InApply",
                                                                "Yes", indent)]))
                   \o (IF apply_needs_parens THEN <<")">> ELSE <<>>)
      [] expr.tag \in {"Num", "Float", "GlobalTag", "PrivateTag"} ->
            push_str(expr.string)
      [] expr.tag = "NonBase10Int" ->
            (IF expr.is_negative THEN <<"-">> ELSE <<>>)
               \o base_prefix(expr.base) \o push_str(expr.string)
      [] expr.tag = "Record" ->
            fmt_record(expr.update, expr.fields, expr.final_comments, indent)
      [] expr.tag = "Closure" -> fmt_closure(expr.patterns, expr.body, indent)
      [] expr.tag = "Defs" ->
            Concat([i \in DOMAIN expr.defs |-> fmt_def(expr.defs[i], indent)])
               \o (IF ~empty_line_before_expr(expr.ret) THEN <<"\n">> ELSE <<>>)
               \o format_with_options(expr.ret, "NotNeeded", "Yes", indent)
      [] expr.tag = "If" ->
            fmt_if(expr.loc_condition, expr.loc_then, expr.loc_else, indent)
      [] expr.tag = "When" -> fmt_when(expr.loc_condition, expr.branches, indent)
      [] expr.tag = "List" -> fmt_list(expr.items, expr.final_comments, indent)
      [] expr.tag = "BinOp" ->
            fmt_bin_op(expr.left, expr.op, expr.right, FALSE, parens, indent)
      [] expr.tag = "UnaryOp" ->
            (IF expr.op = "Negate" THEN <<"-">> ELSE <<"!">>)
               \o format_with_options(expr.expr, parens, newlines, indent)
      [] expr.tag = "Nested" ->
            format_with_options(expr.expr, parens, newlines, indent)
      [] expr.tag = "AccessorFunction" -> <<".">> \o push_str(expr.key)
      [] expr.tag = "Access" ->
            format_with_options(expr.expr, parens, "Yes", indent)
               \o <<".">> \o push_str(expr.key)
      [] expr.tag \in {"MalformedIdent", "MalformedClosure", "PrecedenceConflict"} ->
            <<>>

\* A variant of fmt_bin_op in which every link of a chain decides its form
\* on its own: the nested call is told it is not part of a multiline chain.
RECURSIVE fmt_bin_op_local(_, _, _, _, _, _)
fmt_bin_op_local(loc_left_side, loc_bin_op, loc_right_side, part_of_multi_line_bin_ops, apply_needs_parens, indent) ==
    LET multiline == is_multiline(loc_right_side) \/ is_multiline(loc_left_side)
                        \/ part_of_multi_line_bin_ops
    IN  format_with_options(loc_left_side, apply_needs_parens, "No", indent)
           \o (IF multiline THEN newline(indent + INDENT) ELSE <<" ">>)
           \o <<bin_op_token(loc_bin_op)>>
           \o <<" ">>
           \o (IF loc_right_side.tag = "BinOp"
                 THEN fmt_bin_op_local(loc_right_side.left, loc_right_side.op,
                                       loc_right_side.right, FALSE,
                                       apply_needs_parens, indent)
               ELSE format_with_options(loc_right_side, apply_needs_parens, "Yes",
                                        indent))

fmt_bin_op(loc_left_side, loc_bin_op, loc_right_side, part_of_multi_line_bin_ops, apply_needs_parens, indent) ==
    LET multiline == is_multiline(loc_right_side) \/ is_multiline(loc_left_side)
                        \/ part_of_multi_line_bin_ops
    IN  format_with_options(loc_left_side, apply_needs_parens, "No", indent)
           \o (IF multiline THEN newline(indent + INDENT) ELSE <<" ">>)
           \o <<bin_op_token(loc_bin_op)>>
           \o <<" ">>
           \o (IF loc_right_side.tag = "BinOp"
                 THEN fmt_bin_op(loc_right_side.left, loc_right_side.op,
                                 loc_right_side.right, multiline, apply_needs_parens,
                                 indent)
               ELSE format_with_options(loc_right_side, apply_needs_parens, "Yes",
                                        indent))

\* A variant of fmt_list_item that takes the last arm for every item: the
\* item with its spaces as format_with_options renders them, then the comma.
fmt_list_item_plain(item, item_indent) ==
    newline(item_indent)
       \o format_with_options(item, "NotNeeded", "Yes", item_indent)
       \o <<",">>

\* One item of a multiline list (the match on &item.value in fmt_list)
fmt_list_item(item, item_indent) ==
    IF item.tag = "SpaceBefore"
      THEN newline(item_indent)
              \o fmt_comments_only(item.spaces, "Bottom", item_indent)
              \o (IF item.expr.tag = "SpaceAfter"
                    THEN format(item.expr.expr, item_indent)
                            \o <<",">>
                            \o fmt_comments_only(item.expr.spaces, "Top", item_indent)
                  ELSE format(item.expr, item_indent) \o <<",">>)
    ELSE IF item.tag = "SpaceAfter"
      THEN newline(item_indent)
              \o format(item.expr, item_indent)
              \o <<",">>
              \o fmt_comments_only(item.spaces, "Top", item_indent)
    ELSE newline(item_indent)
            \o format_with_options(item, "NotNeeded", "Yes", item_indent)
            \o <<",">>

fmt_list(loc_items, final_comments, indent) ==
    IF loc_items = <<>> /\ \A i \in DOMAIN final_comments : is_newline(final_comments[i])
      THEN <<"[]">>
    ELSE
      <<"[">>
         \o (IF \E i \in DOMAIN loc_items : is_multiline(loc_items[i])
               THEN LET item_indent == indent + INDENT
                    IN  Concat([i \in DOMAIN loc_items |->
                                  fmt_list_item(loc_items[i], item_indent)])
                           \o fmt_comments_only(final_comments, "Top", item_indent)
                           \o newline(indent)
                           \o <<"]">>
             ELSE Concat([i \in DOMAIN loc_items |->
                            <<" ">>
                               \o format_with_options(loc_items[i], "NotNeeded", "Yes",
                                                      indent)
                               \o (IF i < Len(loc_items) THEN <<",">> ELSE <<>>)])
                     \o <<" ", "]">>)

\* The condition of a when (lines 521-564)
fmt_when_condition(loc_condition, indent) ==
    IF is_multiline(loc_condition)
      THEN LET condition_indent == indent + INDENT
           IN  IF loc_condition.tag = "SpaceBefore"
                 THEN fmt_comments_only(loc_condition.spaces, "Top", condition_indent)
                         \o newline(condition_indent)
                         \o (IF loc_condition.expr.tag = "SpaceAfter"
                               THEN format(loc_condition.expr.expr, condition_indent)
                                       \o fmt_comments_only(loc_condition.expr.spaces,
                                                            "Top", condition_indent)
                                       \o newline(indent)
                             ELSE format(loc_condition.expr, condition_indent))
               ELSE newline(condition_indent)
                       \o format(loc_condition, condition_indent)
                       \o newline(indent)
    ELSE <<" ">> \o format(loc_condition, indent) \o <<" ">>

\* One turn of `while let Some(branch) = it.next()` (lines 568-627);
\* more: it.peek().is_some()
fmt_when_branch(branch, more, indent) ==
    LET patterns == branch.patterns
        expr == branch.value
        first_pattern == Head(patterns)
        rest == Tail(patterns)
        multiline == IF rest = <<>> THEN FALSE
                     ELSE first_pattern.start_line # rest[Len(rest)].end_line
    IN  add_spaces(indent + INDENT)
           \o fmt_pattern(first_pattern, indent + INDENT)
           \o Concat([i \in DOMAIN rest |->
                 (IF multiline
                    THEN <<"\n">> \o add_spaces(indent + INDENT) \o <<"|", " ">>
                  ELSE <<" ", "|", " ">>)
                    \o fmt_pattern(rest[i], indent + INDENT)])
           \o (IF branch.guard # <<>>
                 THEN <<" ", "if", " ">>
                         \o format_with_options(branch.guard[1], "NotNeeded", "Yes",
                                                indent + INDENT)
               ELSE <<>>)
           \o <<" ", "->", "\n">>
           \o add_spaces(indent + (INDENT * 2))
           \o (IF expr.tag = "SpaceBefore"
                 THEN fmt_comments_only(expr.spaces, "Bottom", indent + (INDENT * 2))
                         \o format_with_options(expr.expr, "NotNeeded", "Yes",
                                                indent + 2 * INDENT)
               ELSE format_with_options(expr, "NotNeeded", "Yes", indent + 2 * INDENT))
           \o (IF more THEN <<"\n", "\n">> ELSE <<>>)

fmt_when(loc_condition, branches, indent) ==
    <<"when">>
       \o fmt_when_condition(loc_condition, indent)
       \o <<"is", "\n">>
       \o Concat([i \in DOMAIN branches |->
             fmt_when_branch(branches[i], i < Len(branches), indent)])

fmt_if(loc_condition, loc_then, loc_else, indent) ==
    LET is_multiline_then == is_multiline(loc_then)
        is_multiline_else == is_multiline(loc_else)
        is_multiline_condition == is_multiline(loc_condition)
        multiline == is_multiline_then \/ is_multiline_else \/ is_multiline_condition
        return_indent == IF multiline THEN indent + INDENT ELSE indent
    IN
    <<"if">>
       \o (IF is_multiline_condition
             THEN IF loc_condition.tag = "SpaceBefore"
                    THEN fmt_comments_only(loc_condition.spaces, "Top", return_indent)
                            \o newline(return_indent)
                            \o (IF loc_condition.expr.tag = "SpaceAfter"
                                  THEN format(loc_condition.expr.expr, return_indent)
                                          \o fmt_comments_only(loc_condition.expr.spaces,
                                                               "Top", return_indent)
                                          \o newline(indent)
                                ELSE format(loc_condition.expr, return_indent))
                  ELSE IF loc_condition.tag = "SpaceAfter"
                    THEN newline(return_indent)
                            \o format(loc_condition.expr, return_indent)
                            \o fmt_comments_only(loc_condition.spaces, "Top",
                                                 return_indent)
                            \o newline(indent)
                  ELSE newline(return_indent)
                          \o format(loc_condition, return_indent)
                          \o newline(indent)
           ELSE <<" ">>
                   \o format_with_options(loc_condition, "NotNeeded", "Yes", indent)
                   \o <<" ">>)
       \o <<"then">>
       \o (IF multiline
             THEN IF loc_then.tag = "SpaceBefore"
                    THEN newline(return_indent)
                            \o fmt_comments_only(loc_then.spaces, "Bottom", return_indent)
                            \o (IF loc_then.expr.tag = "SpaceAfter"
                                  THEN format(loc_then.expr.expr, return_indent)
                                          \o fmt_comments_only(loc_then.expr.spaces,
                                                               "Top", return_indent)
                                          \o newline(indent)
                                ELSE format(loc_then.expr, return_indent))
                  ELSE format(loc_condition, return_indent)
           ELSE <<" ">> \o format(loc_then, return_indent))
       \o (IF multiline
             THEN <<"else">> \o newline(return_indent)
           ELSE <<" ", "else", " ">>)
       \o format(loc_else, return_indent)

fmt_closure(loc_patterns, loc_ret, outer_indent) ==
    LET arguments_are_multiline ==
           \E i \in DOMAIN loc_patterns : pattern_is_multiline(loc_patterns[i])
        indent == IF arguments_are_multiline THEN outer_indent + INDENT
                  ELSE outer_indent
        body_indent == IF is_multiline(loc_ret) THEN indent + INDENT ELSE indent
    IN
    <<"\\">>
       \o Concat([i \in DOMAIN loc_patterns |->
             fmt_pattern(loc_patterns[i], indent)
                \o (IF i < Len(loc_patterns)
                      THEN IF arguments_are_multiline
                             THEN <<",">> \o newline(indent)
                           ELSE <<",", " ">>
                    ELSE <<>>)])
       \o (IF arguments_are_multiline THEN newline(indent) ELSE <<" ">>)
       \o <<"->">>
       \o (IF loc_ret.tag = "SpaceBefore" THEN <<>> ELSE <<" ">>)
       \o format_with_options(loc_ret, "NotNeeded", "Yes", body_indent)

fmt_record(update, loc_fields, final_comments, indent) ==
    IF loc_fields = <<>> /\ \A i \in DOMAIN final_comments : is_newline(final_comments[i])
      THEN <<"{}">>
    ELSE
      <<"{">>
         \o (IF update = <<>> THEN <<>>
             ELSE <<" ">> \o format(update[1], indent) \o <<" ", "&">>)
         \o (IF (\E i \in DOMAIN loc_fields : field_is_multiline(loc_fields[i]))
                   \/ final_comments # <<>>
               THEN LET field_indent == indent + INDENT
                    IN  Concat([i \in DOMAIN loc_fields |->
                                  format_field_multiline(loc_fields[i], field_indent, "")])
                           \o fmt_comments_only(final_comments, "Top", field_indent)
                           \o newline(indent)
             ELSE <<" ">>
                     \o Concat([i \in DOMAIN loc_fields |->
                           field_format_with_options(loc_fields[i], "NotNeeded", "No",
                                                     indent)
                              \o (IF i < Len(loc_fields) THEN <<",", " ">> ELSE <<>>)])
                     \o <<" ">>)
         \o <<"}">>

format_field_multiline(field, indent, separator_prefix) ==
    CASE field.tag = "RequiredValue" ->
            newline(indent)
               \o <<field.name>>
               \o (IF field.spaces # <<>> THEN fmt_spaces(field.spaces, indent) ELSE <<>>)
               \o push_str(separator_prefix)
               \o <<":", " ">>
               \o format(field.ann, indent)
               \o <<",">>
      [] field.tag = "OptionalValue" ->
            newline(indent)
               \o <<field.name>>
               \o (IF field.spaces # <<>> THEN fmt_spaces(field.spaces, indent) ELSE <<>>)
               \o push_str(separator_prefix)
               \o <<"?", " ">>
               \o format(field.ann, indent)
               \o <<",">>
      [] field.tag = "LabelOnly" ->
            newline(indent) \o <<field.name>> \o <<",">>
      [] field.tag = "SpaceBefore" ->
            fmt_comments_only(field.spaces, "Top", indent)
               \o format_field_multiline(field.field, indent, separator_prefix)
      [] field.tag = "SpaceAfter" ->
            format_field_multiline(field.field, indent, separator_prefix)
               \o fmt_comments_only(field.spaces, "Top", indent)
      [] field.tag = "Malformed" -> push_str(field.raw)

\* ------------------------------------------------------------------------
\* The expressions the formatter is run on
\* ------------------------------------------------------------------------
\* The sequences over S of length at most n.
RECURSIVE SeqsUpTo(_, _)
SeqsUpTo(S, n) ==
    IF n = 0 THEN {<<>>}
    ELSE LET P == SeqsUpTo(S, n - 1)
         IN  P \cup {Append(q, x) : q \in {p \in P : Len(p) = n - 1}, x \in S}

\* The indents: the multiples of INDENT up to MaxIndentSteps steps.
FmtIndents == {INDENT * k : k \in 0 .. MaxIndentSteps}

\* Non-empty trivia: a newline; a doc comment, a newline and a line comment.
SpacesChoices ==
    {<<Newline>>, <<DocComment("dc"), Newline, LineComment("lc")>>}

\* Final comments of a list or record: none, or one line comment.
FinalComments == {<<>>, <<LineComment("f")>>}

\* An expression as it is, with spaces before, with spaces after, and with
\* spaces before and after (SpaceBefore wrapping SpaceAfter).
Wrappings(e) ==
    {e}
    \cup {SpaceBefore(e, s) : s \in SpacesChoices}
    \cup {SpaceAfter(e, s) : s \in SpacesChoices}
    \cup {SpaceBefore(SpaceAfter(e, s), t) : s \in SpacesChoices, t \in SpacesChoices}

\* List items: an identifier and a list that is itself multiline, wrapped.
ListItems ==
    Wrappings(Var("", "a"))
    \cup Wrappings(List(<<SpaceBefore(Var("", "b"), <<Newline>>)>>, <<>>))

ListInputs ==
    {List(items, fc) : items \in SeqsUpTo(ListItems, MaxItems), fc \in FinalComments}

IfInputs ==
    {If(c, t, e) : c \in Wrappings(Var("", "c")), t \in Wrappings(Var("", "t")),
                   e \in Wrappings(Var("", "e"))}

\* When branches: one pattern, or two on one line or on two lines; no guard,
\* or a guard on the next line; a body plain or with spaces on one side.
WhenBranches ==
    {WhenBranch(p, g, v) :
        p \in {<<IdentPattern("A", 1)>>,
               <<IdentPattern("A", 1), IdentPattern("B", 1)>>,
               <<IdentPattern("A", 1), IdentPattern("B", 2)>>},
        g \in {<<>>, <<SpaceBefore(Var("", "g"), <<Newline>>)>>},
        v \in {Num("1")}
              \cup {SpaceBefore(Num("1"), s) : s \in SpacesChoices}
              \cup {SpaceAfter(Num("1"), s) : s \in SpacesChoices}}

WhenInputs ==
    {When(c, bs) :
        c \in {Var("", "x"),
               SpaceBefore(Var("", "x"), <<Newline>>),
               SpaceBefore(SpaceAfter(Var("", "x"), <<LineComment("lc")>>), <<Newline>>)},
        bs \in SeqsUpTo(WhenBranches, MaxBranches) \ {<<>>}}

RecordFields ==
    {RequiredValue("x", s, v) : s \in {<<>>, <<LineComment("lc")>>},
                                v \in {Num("1"), SpaceBefore(Num("1"), <<Newline>>)}}
    \cup {OptionalValue("o", <<>>, Num("2")), LabelOnly("y")}
    \cup {FieldSpaceBefore(LabelOnly("y"), s) : s \in SpacesChoices}
    \cup {FieldSpaceAfter(RequiredValue("x", <<>>, Num("1")), s) : s \in SpacesChoices}

RecordInputs ==
    {Record(fs, u, fc) : fs \in SeqsUpTo(RecordFields, MaxFields),
                         u \in {<<>>, <<Var("", "r")>>}, fc \in FinalComments}

\* One or more expressions of every other variant.
OtherInputs ==
    LET a == Var("", "a")
        b == Var("M", "b")
        nl == <<Newline>>
        lc == <<LineComment("lc")>>
        when == When(a, <<WhenBranch(<<IdentPattern("A", 1)>>, <<>>, Num("1"))>>)
    IN  {Num("1"), Float("1.5"), GlobalTag("True"), PrivateTag("@Tag"), a, b,
         NonBase10Int("Hex", "ff", TRUE), NonBase10Int("Decimal", "12", FALSE),
         NonBase10Int("Octal", "17", FALSE), NonBase10Int("Binary", "101", FALSE),
         AccessorFunction("key"), Access(a, "key"),
         Access(ParensAround(when), "key"),
         MalformedIdent, MalformedClosure,
         PrecedenceConflict(a), PrecedenceConflict(SpaceBefore(a, nl)),
         ParensAround(a), ParensAround(SpaceAfter(a, lc)), Nested(a),
         Nested(SpaceBefore(a, nl)),
         UnaryOp(a, "Negate"), UnaryOp(SpaceBefore(a, nl), "Not"),
         Str(PlainLine("")), Str(PlainLine("hi")),
         Str(Line(<<Plaintext("Hi, "), Interpolated(a), Unicode("00A0"),
                    EscapedChar("n")>>)),
         Str(Line(<<Interpolated(SpaceBefore(a, lc))>>)),
         Str(Block(<<>>)), Str(Block(<<<<Plaintext("one")>>>>)),
         Str(Block(<<<<Plaintext("one")>>, <<>>, <<Plaintext("three")>>>>)),
         Apply(a, <<b, Num("1")>>), Apply(a, <<Apply(b, <<a>>), SpaceBefore(b, lc)>>),
         Apply(SpaceAfter(a, nl), <<b>>),
         BinOp(a, "Plus", b), BinOp(a, "Pizza", SpaceBefore(b, nl)),
         BinOp(a, "Star", BinOp(b, "Minus", a)),
         BinOp(a, "And", BinOp(b, "Or", SpaceBefore(a, nl))),
         BinOp(SpaceAfter(a, lc), "Equals", BinOp(b, "LessThan", a)),
         Closure(<<IdentPattern("x", 1)>>, a),
         Closure(<<IdentPattern("x", 1), IdentPattern("y", 1)>>, SpaceBefore(a, nl)),
         Closure(<<IdentPattern("x", 1)>>, when),
         Defs(<<"x = 1">>, a), Defs(<<"x = 1", "y = 2">>, SpaceBefore(a, nl)),
         Defs(<<"x = 1">>, SpaceBefore(a, <<Newline, Newline>>)),
         Defs(<<"x = 1">>, Nested(SpaceBefore(a, <<Newline, LineComment("lc"), Newline>>)))}

\* The operators of a chain, by position, and its operands: an identifier
\* plain, with a newline before, with a comment after, with both, and a
\* parenthesized operation that is itself multiline.
ChainOps == <<"Plus", "Star", "Minus", "Slash">>

ChainOperands ==
    {Var("", "a"),
     SpaceBefore(Var("", "a"), <<Newline>>),
     SpaceAfter(Var("", "a"), <<LineComment("lc")>>),
     SpaceBefore(SpaceAfter(Var("", "a"), <<Newline>>), <<Newline>>),
     ParensAround(BinOp(Var("", "a"), "Percent", SpaceBefore(Var("", "b"), <<Newline>>)))}

\* The right-nested chains of n operators whose first operator is ChainOps[k]
RECURSIVE ChainsFrom(_, _)
ChainsFrom(k, n) ==
    IF n = 0 THEN ChainOperands
    ELSE {BinOp(l, ChainOps[k], r) : l \in ChainOperands, r \in ChainsFrom(k + 1, n - 1)}

ChainInputs == UNION {ChainsFrom(1, n) : n \in 1 .. MaxChain}

FmtInputs ==
    ListInputs \cup IfInputs \cup WhenInputs \cup RecordInputs \cup OtherInputs
       \cup ChainInputs

\* `load` and solve_loaded are not running.
LoaderIdle ==
    /\ files = <<>>
    /\ given = <<>>
    /\ loaded_deps = <<>>
    /\ pc = "done"
    /\ workers = <<>>
    /\ sending = {}
    /\ chan = <<>>
    /\ capacity = ChannelCapacity
    /\ strong_count = 0
    /\ requested_module = "none"
    /\ all_deps = {}
    /\ pending = 0
    /\ batch = {}

SolverIdle ==
    /\ solve_args = <<>>
    /\ spc = "not_called"
    /\ vars_by_symbol = <<>>
    /\ dep_constraints = <<>>
    /\ next_dep = 1
    /\ solver_runs = <<>>

\* Before a call expr.format(&mut buf, indent) on an empty buffer
InitFmt ==
    /\ fmt_expr \in FmtInputs
    /\ fmt_indent \in FmtIndents
    /\ fmt_pc = "call"
    /\ fmt_buf = <<>>
    /\ LoaderIdle
    /\ SolverIdle

\* The call expr.format(&mut buf, indent)
Format ==
    /\ fmt_pc = "call"
    /\ fmt_buf' = fmt_buf \o format(fmt_expr, fmt_indent)
    /\ fmt_pc' = "done"
    /\ UNCHANGED <<loader_vars, solver_vars, fmt_expr, fmt_indent>>

NextFmt == Format

SpecFmt == InitFmt /\ [][NextFmt]_vars

\* ------------------------------------------------------------------------
\* Properties
\* ------------------------------------------------------------------------
Imports == [m \in DOMAIN files |-> files[m].imports]

AllValid == \A m \in DOMAIN files : files[m].kind = "valid"

\* The loop `while let Some(..) = rx.recv().await` has been left by `break`.
LoopExited == pc \in {"unwrap", "done"}

\* The entries `load` appended to the list it was given.
Appended == SubSeq(loaded_deps, Len(given) + 1, Len(loaded_deps))

NamesOf(list) == {list[i].name : i \in DOMAIN list}

\* C1: on a finite acyclic import graph of valid modules, starting from an
\* empty dependency list, the coordinator loop eventually exits (pc = "unwrap"
\* is the state right after the loop), and it exits with pending = 0 and a
\* dependency list that holds exactly one entry for each module of the
\* transitive closure of the root's imports, and nothing else.
C1_TerminatesWithClosure ==
    (AllValid /\ Acyclic(Imports) /\ given = <<>>)
        => <>(/\ pc = "unwrap"
              /\ pending = 0
              /\ NamesOf(loaded_deps) = RootClosure(Imports)
              /\ Len(loaded_deps) = Cardinality(RootClosure(Imports)))

\* The import graph is the diamond root -> A, B; A -> C; B -> C.
Diamond ==
    /\ Cardinality(RootClosure(Imports)) = 3
    /\ Acyclic(Imports)
    /\ \E c \in RootClosure(Imports) :
          /\ c \notin files[RootName].imports
          /\ \A m \in files[RootName].imports : files[m].imports = {c}

C1_Witness == pc = "unwrap" /\ Diamond /\ given = <<>>

\* The workers spawned for dependencies (load_module); workers[1] is the root's.
DepWorkers == 2 .. Len(workers)

\* C2: no dependency name is handed to a loader worker more than once, no
\* dependency appears more than once in the dependency list, and a name is
\* in all_deps when its worker is spawned.
C2_LoadedOnce ==
    /\ \A v, w \in DepWorkers : workers[v].name = workers[w].name => v = w
    /\ \A i, j \in DOMAIN loaded_deps :
          loaded_deps[i].name = loaded_deps[j].name => i = j
    /\ \A w \in DepWorkers : workers[w].name \in all_deps

\* The diamond is loaded: C has one worker and the list has length 3.
C2_Witness ==
    /\ pc = "done" /\ Diamond
    /\ Len(loaded_deps) = 3
    /\ Len(workers) = 4

\* No message is in the channel and none can come: every worker has returned
\* and no send task is left.  `load` keeps its own Sender, so recv() does
\* not yield None either.
Quiet ==
    /\ chan = <<>>
    /\ sending = {}
    /\ \A w \in DOMAIN workers : workers[w].st = "returned"

\* C3: a run of load completes or panics; the coordinator is never left
\* waiting at the channel receive for a message that cannot come.
C3_NeverBlockedForever == ~(pc = "recv" /\ Quiet)

\* C4: every loader worker, whatever its outcome, causes exactly one
\* dependency-set message to reach the channel: once a worker has returned and
\* its send task is over (with the coordinator still there to receive), it has
\* delivered one message.
C4_ExactlyOneMessage ==
    \A w \in DOMAIN workers :
       (workers[w].st = "returned" /\ w \notin sending /\ ReceiverAlive)
          => workers[w].sent = 1

\* What loading the file of module m by itself yields.
OwnResult(m) ==
    CASE files[m].kind = "nofile" -> "FileProblem"
      [] files[m].kind = "badheader" -> "ParsingFailed"
      [] files[m].kind = "badbody" -> "JoinError"
      [] OTHER -> "Valid"

\* The batch of worker w has been joined and pushed.
Joined(w) == w \notin batch \/ pc \in {"recv", "unwrap", "done"}

\* C5: a dependency that cannot be read or whose header does not parse is
\* appended to the dependency list as FileProblem / ParsingFailed, and every
\* module spawned in the same batch is appended with the result of its own
\* file (Valid for a valid one).
C5_FailureIsolated ==
    \A w \in DepWorkers :
       Joined(w) =>
          \E i \in DOMAIN loaded_deps :
             loaded_deps[i] = Entry(workers[w].name, OwnResult(workers[w].name))

\* A batch with a failed module and a Valid sibling has been pushed.
C5_Witness ==
    /\ pc = "recv"
    /\ \E v, w \in batch :
          /\ files[workers[v].name].kind \in {"nofile", "badheader"}
          /\ files[workers[w].name].kind = "valid"
          /\ \E i, j \in DOMAIN loaded_deps :
                /\ loaded_deps[i] = Entry(workers[v].name, OwnResult(workers[v].name))
                /\ loaded_deps[j] = Entry(workers[w].name, "Valid")

\* C6: the root module, loaded by file name, is not loaded a second time as a
\* dependency and does not appear in the dependency list.
C6_RootNotReloaded ==
    /\ \A w \in DepWorkers : workers[w].name # RootName
    /\ RootName \notin NamesOf(loaded_deps)

\* C7: a module the caller passed in loaded_deps gets no loader and no second
\* entry.
C7_GivenNotReloaded ==
    /\ \A w \in DepWorkers : workers[w].name \notin NamesOf(given)
    /\ NamesOf(Appended) \cap NamesOf(given) = {}

\* C8: when the coordinator reclaims the variable store, every worker has
\* returned and the coordinator's is the only reference; try_unwrap succeeds.
C8_SoleOwnerAtReclaim ==
    /\ pc = "unwrap" =>
          /\ strong_count = 1
          /\ \A w \in DOMAIN workers : workers[w].st = "returned"
    /\ pc # "panic"

\* The store is reclaimed after the root and three dependencies were loaded.
C8_Witness == pc = "done" /\ strong_count = 0 /\ Len(workers) = 4

Pairs(map) == {<<k, map[k]>> : k \in DOMAIN map}

\* Every (symbol, variable) of a module: its exposed imports and the pattern
\* variables of all its definitions, straight and recursive.
SymbolsOf(m) ==
    Pairs(m.exposed_imports)
    \cup UNION {IF m.declarations[i].kind = "Declare"
                  THEN Pairs(m.declarations[i].pattern_vars)
                ELSE IF m.declarations[i].kind = "DeclareRec"
                  THEN UNION {Pairs(m.declarations[i].defs[j]) :
                                 j \in DOMAIN m.declarations[i].defs}
                ELSE {} : i \in DOMAIN m.declarations}

SolveDeps == solve_args.loaded_deps

AllValidNamed ==
    \A i \in DOMAIN SolveDeps :
       SolveDeps[i].result = "Valid" /\ SolveDeps[i].module.name # <<>>

NoInvalidCycle ==
    /\ ~has_invalid_cycle(solve_args.module)
    /\ \A i \in DOMAIN SolveDeps :
          SolveDeps[i].result = "Valid" => ~has_invalid_cycle(SolveDeps[i].module)

\* The symbols of the primary module and of all dependencies.
AllSymbols ==
    SymbolsOf(solve_args.module)
    \cup UNION {SymbolsOf(SolveDeps[i].module) : i \in DOMAIN SolveDeps}

\* The solver has run, in this order, on the constraints of the dependencies
\* in list order and then on the primary's (or on a prefix of that, while
\* solve_loaded is running), each time with all symbols; solve_loaded does not
\* panic and returns after exactly n + 1 runs.
SolvedInOrder ==
    /\ Len(solver_runs) <= Len(SolveDeps) + 1
    /\ \A i \in DOMAIN solver_runs :
          /\ solver_runs[i].constraint =
                IF i <= Len(SolveDeps) THEN SolveDeps[i].module.constraint
                ELSE solve_args.module.constraint
          /\ Pairs(solver_runs[i].vars_by_symbol) = AllSymbols
    /\ spc # "panic"
    /\ spc = "returned" => Len(solver_runs) = Len(SolveDeps) + 1

\* C9 as stated: for a primary module and n Valid named dependencies,
\* solve_loaded runs the solver n + 1 times, on the dependency constraints in
\* list order and last on the primary's, each time with a vars_by_symbol that
\* holds the symbols of the primary and of all n dependencies.
C9_SolverRunsAsStated == AllValidNamed => SolvedInOrder

\* C9, amended: the same, for modules none of which holds an InvalidCycle
\* declaration.
C9_SolverRuns == (AllValidNamed /\ NoInvalidCycle) => SolvedInOrder

\* Three dependencies and the primary were solved.
C9_Witness ==
    /\ spc = "returned"
    /\ Len(SolveDeps) = 3
    /\ Len(solver_runs) = 4

HasBroken ==
    \E i \in DOMAIN SolveDeps : SolveDeps[i].result \in {"FileProblem", "ParsingFailed"}

\* C10: with a FileProblem or ParsingFailed entry anywhere in the dependency
\* list, solve_loaded never gets past the loop over the dependencies, where it
\* panics: it does not return, and the solver is not run on any constraint.
C10_BrokenDepIsFatal ==
    HasBroken => /\ solver_runs = <<>>
                 /\ spc \in {"seed", "deps", "panic"}

\* The panic on a broken entry that stands last, after two Valid ones.
C10_Witness ==
    /\ spc = "panic"
    /\ Len(SolveDeps) = 3
    /\ next_dep = 3
    /\ SolveDeps[3].result = "ParsingFailed"

\* The dependency-set messages placed on the channel so far, and those the
\* coordinator has taken from it.
MessagesSent == Cardinality({w \in DOMAIN workers : workers[w].sent = 1})

MessagesReceived == MessagesSent - Len(chan)

\* C17: whenever the coordinator is about to receive, pending is the number of
\* workers spawned so far (the root's included) minus the number of messages
\* received so far; pending is never negative; the loop is left only when
\* that difference is 0.
C17_PendingArithmetic ==
    /\ pc = "recv" => pending = Len(workers) - MessagesReceived
    /\ pending >= 0
    /\ pc \in {"unwrap", "done"} => Len(workers) - MessagesReceived = 0

\* The root's message, naming two new modules, has been received.
C17_Witness ==
    /\ pc = "recv"
    /\ Len(workers) = 3
    /\ MessagesReceived = 1
    /\ pending = 2

\* C18: a worker's dependency set is on the channel (or already received)
\* before the worker starts to parse the module body: a worker that went
\* through process_defs has delivered its message.
C18_DepsOnChannelBeforeBody ==
    \A w \in DOMAIN workers : workers[w].res = "Valid" => workers[w].sent = 1

\* C19: the coordinator is never blocked waiting for a loader worker to
\* finish, neither the root's nor those spawned for a dependency message.
C19_SuspendsOnlyOnReceive ==
    /\ ~(pc = "await_root" /\ workers[1].st # "returned")
    /\ ~(pc = "join" /\ ~join_ready(batch))

\* ------------------------------------------------------------------------
\* Properties of the formatter
\* ------------------------------------------------------------------------
Formatted == fmt_pc = "done"

HasNewline(text) == \E i \in DOMAIN text : text[i] = "\n"

\* C11: is_multiline(n) is true if and only if the text produced by
\* formatting n contains a newline.
C11_MultilineIffNewline ==
    Formatted => (is_multiline(fmt_expr) <=> HasNewline(fmt_buf))

\* The comments among trivia items, in order.
CommentsAmong(spaces) == SelectSeq(spaces, LAMBDA space : ~is_newline(space))

\* Every line comment and doc comment held in a tree, in source order.
RECURSIVE CommentsOf(_), CommentsOfField(_)
CommentsOfAll(exprs) == Concat([i \in DOMAIN exprs |-> CommentsOf(exprs[i])])

CommentsOfSegments(segments) ==
    Concat([i \in DOMAIN segments |->
       IF segments[i].seg = "Interpolated" THEN CommentsOf(segments[i].expr) ELSE <<>>])

CommentsOfField(field) ==
    CASE field.tag \in {"RequiredValue", "OptionalValue"} ->
            CommentsAmong(field.spaces) \o CommentsOf(field.ann)
      [] field.tag = "SpaceBefore" ->
            CommentsAmong(field.spaces) \o CommentsOfField(field.field)
      [] field.tag = "SpaceAfter" ->
            CommentsOfField(field.field) \o CommentsAmong(field.spaces)
      [] OTHER -> <<>>

CommentsOf(expr) ==
    CASE expr.tag = "SpaceBefore" -> CommentsAmong(expr.spaces) \o CommentsOf(expr.expr)
      [] expr.tag = "SpaceAfter" -> CommentsOf(expr.expr) \o CommentsAmong(expr.spaces)
      [] expr.tag \in {"Access", "UnaryOp", "PrecedenceConflict", "ParensAround",
                       "Nested"} -> CommentsOf(expr.expr)
      [] expr.tag = "Defs" -> CommentsOf(expr.ret)
      [] expr.tag = "When" ->
            CommentsOf(expr.loc_condition)
               \o Concat([i \in DOMAIN expr.branches |->
                     (IF expr.branches[i].guard = <<>> THEN <<>>
                      ELSE CommentsOf(expr.branches[i].guard[1]))
                        \o CommentsOf(expr.branches[i].value)])
      [] expr.tag = "List" ->
            CommentsOfAll(expr.items) \o CommentsAmong(expr.final_comments)
      [] expr.tag = "Str" ->
            CASE expr.literal.kind = "Line" -> CommentsOfSegments(expr.literal.segments)
              [] expr.literal.kind = "Block" ->
                    Concat([i \in DOMAIN expr.literal.lines |->
                       CommentsOfSegments(expr.literal.lines[i])])
              [] OTHER -> <<>>
      [] expr.tag = "Apply" -> CommentsOf(expr.expr) \o CommentsOfAll(expr.args)
      [] expr.tag = "If" ->
            CommentsOf(expr.loc_condition) \o CommentsOf(expr.loc_then)
               \o CommentsOf(expr.loc_else)
      [] expr.tag = "BinOp" -> CommentsOf(expr.left) \o CommentsOf(expr.right)
      [] expr.tag = "Closure" -> CommentsOf(expr.body)
      [] expr.tag = "Record" ->
            (IF expr.update = <<>> THEN <<>> ELSE CommentsOf(expr.update[1]))
               \o Concat([i \in DOMAIN expr.fields |-> CommentsOfField(expr.fields[i])])
               \o CommentsAmong(expr.final_comments)
      [] OTHER -> <<>>

\* The comments of a text: a `#` or `##` token and the comment text after it.
CommentsIn(text) ==
    LET at == SelectSeq([i \in DOMAIN text |-> i],
                        LAMBDA i : text[i] \in {"#", "##"} /\ i < Len(text))
    IN  [k \in DOMAIN at |->
           IF text[at[k]] = "#" THEN LineComment(text[at[k] + 1])
           ELSE DocComment(text[at[k] + 1])]

Occurrences(x, s) == Cardinality({i \in DOMAIN s : s[i] = x})

\* C12: every line comment and doc comment held anywhere in the tree appears
\* exactly once in the formatted output (as many times as the tree holds
\* it), and the output holds no other comment.
C12_CommentsExactlyOnce ==
    Formatted =>
       LET held == CommentsOf(fmt_expr)
           out == CommentsIn(fmt_buf)
       IN  \A x \in {held[i] : i \in DOMAIN held} \cup {out[i] : i \in DOMAIN out} :
              Occurrences(x, held) = Occurrences(x, out)

\* C13: no line of the formatted output ends in a space: no space token
\* stands immediately before a newline.
C13_NoTrailingWhitespace ==
    Formatted =>
       \A i \in DOMAIN fmt_buf : (fmt_buf[i] = "\n" /\ i > 1) => fmt_buf[i - 1] # " "

\* C14: parse(format(T)) = T.  The text determines the tree: a conditional
\* with another then-branch does not format to the same text.
C14_ParseRecoversTree ==
    (Formatted /\ fmt_expr \in IfInputs) =>
       \A t \in Wrappings(Var("", "t")) :
          format(If(fmt_expr.loc_condition, t, fmt_expr.loc_else), fmt_indent) = fmt_buf
             => t = fmt_expr.loc_then

\* The spaces before and after a list item, and the item without them.
SpacesAbove(item) == IF item.tag = "SpaceBefore" THEN item.spaces ELSE <<>>

SpacesBelow(item) ==
    IF item.tag = "SpaceAfter" THEN item.spaces
    ELSE IF item.tag = "SpaceBefore" /\ item.expr.tag = "SpaceAfter"
      THEN item.expr.spaces
    ELSE <<>>

ItemCore(item) ==
    IF item.tag = "SpaceAfter" THEN item.expr
    ELSE IF item.tag = "SpaceBefore"
      THEN IF item.expr.tag = "SpaceAfter" THEN item.expr.expr ELSE item.expr
    ELSE item

\* Every comment on a line of its own at `indent`.
CommentLines(spaces, indent) ==
    LET cs == CommentsAmong(spaces)
    IN  Concat([i \in DOMAIN cs |-> newline(indent) \o fmt_comment(cs[i])])

\* The layout of a multiline list at `indent`: after `[`, for every item the
\* comments above it on lines of their own, the item on a new line at
\* indent + 4, a comma right after it, the comments below it on lines of
\* their own; then the final comments, and `]` on a new line at `indent`.
ListLayout(list, indent) ==
    <<"[">>
       \o Concat([i \in DOMAIN list.items |->
             CommentLines(SpacesAbove(list.items[i]), indent + 4)
                \o newline(indent + 4)
                \o format(ItemCore(list.items[i]), indent + 4)
                \o <<",">>
                \o CommentLines(SpacesBelow(list.items[i]), indent + 4)])
       \o CommentLines(list.final_comments, indent + 4)
       \o newline(indent)
       \o <<"]">>

MultilineList ==
    /\ fmt_expr \in ListInputs
    /\ \E i \in DOMAIN fmt_expr.items : is_multiline(fmt_expr.items[i])

\* C15: a list with a multiline item, formatted at indent i, has every item
\* on its own line at i + 4, immediately followed by a comma, the comments
\* attached after an item after that comma on their own lines, and the
\* closing `]` on its own line at i; for items plain, SpaceBefore, SpaceAfter
\* and SpaceBefore wrapping SpaceAfter.
C15_MultilineListLayout ==
    (Formatted /\ MultilineList) => fmt_buf = ListLayout(fmt_expr, fmt_indent)

\* A list of a SpaceAfter item and a SpaceBefore(SpaceAfter) item, both with
\* comments, and a final comment, formatted at indent 4.
C15_Witness ==
    /\ Formatted /\ MultilineList
    /\ fmt_indent = 4
    /\ Len(fmt_expr.items) = 2
    /\ fmt_expr.items[1].tag = "SpaceAfter"
    /\ CommentsAmong(fmt_expr.items[1].spaces) # <<>>
    /\ fmt_expr.items[2].tag = "SpaceBefore"
    /\ fmt_expr.items[2].expr.tag = "SpaceAfter"
    /\ CommentsAmong(fmt_expr.items[2].expr.spaces) # <<>>
    /\ fmt_expr.final_comments # <<>>

\* The positions of a token in a text.
PositionsOf(token, text) == {i \in DOMAIN text : text[i] = token}

\* Position j ends a line that holds nothing but spaces.
EndsBlankLine(text, j) ==
    /\ text[j] = "\n"
    /\ \E k \in 1 .. (j - 1) :
          /\ text[k] = "\n"
          /\ \A m \in (k + 1) .. (j - 1) : text[m] = " "

\* Position p starts a line at `indent`: `indent` spaces and a newline
\* stand right before it.
StartsLineAt(text, p, indent) ==
    /\ p > indent + 1
    /\ text[p - indent - 1] = "\n"
    /\ \A m \in (p - indent) .. (p - 1) : text[m] = " "
    /\ text[p] \notin {" ", "\n"}

\* C16: in a when of k branches formatted at indent i, every branch's first
\* pattern starts a line at i + 4, every body starts on the line after ` ->`
\* at i + 8, there is exactly one blank line between two consecutive
\* branches and none after the last one.
C16_WhenBranchLayout ==
    (Formatted /\ fmt_expr \in WhenInputs) =>
       LET arrows == PositionsOf("->", fmt_buf)
           firsts == PositionsOf("A", fmt_buf)
       IN  /\ Cardinality(arrows) = Len(fmt_expr.branches)
           /\ Cardinality(firsts) = Len(fmt_expr.branches)
           /\ \A p \in firsts : StartsLineAt(fmt_buf, p, fmt_indent + 4)
           /\ \A q \in arrows :
                 /\ fmt_buf[q + 1] = "\n"
                 /\ StartsLineAt(fmt_buf, q + 2 + fmt_indent + 8, fmt_indent + 8)
           /\ \A q \in arrows :
                 LET following == {r \in arrows : r > q}
                     next == IF following = {} THEN Len(fmt_buf) + 1
                             ELSE CHOOSE r \in following : \A x \in following : r <= x
                     blank == {j \in (q + 2) .. (next - 1) : EndsBlankLine(fmt_buf, j)}
                 IN  Cardinality(blank) = IF following = {} THEN 0 ELSE 1

\* C20: the output of If(c, t, e) holds each sub-expression once and in
\* order: c between `if` and `then`, t between `then` and `else`, e after
\* `else`; in the expanded layout a newline comes before `else`.
C20_IfHoldsItsParts ==
    (Formatted /\ fmt_expr \in IfInputs) =>
       /\ \A token \in {"if", "then", "else", "c", "t", "e"} :
             Cardinality(PositionsOf(token, fmt_buf)) = 1
       /\ LET At(token) == CHOOSE p \in PositionsOf(token, fmt_buf) : TRUE
          IN  /\ At("if") < At("c") /\ At("c") < At("then")
              /\ At("then") < At("t") /\ At("t") < At("else")
              /\ At("else") < At("e")
              /\ is_multiline(fmt_expr) =>
                    \E k \in 1 .. (At("else") - 1) :
                       /\ fmt_buf[k] = "\n"
                       /\ \A m \in (k + 1) .. (At("else") - 1) : fmt_buf[m] = " "

\* The operands of a right-nested chain, left to right, and its operators.
RECURSIVE OperandsOf(_), OperatorsOf(_)
OperandsOf(expr) ==
    IF expr.tag = "BinOp" THEN <<expr.left>> \o OperandsOf(expr.right) ELSE <<expr>>

OperatorsOf(expr) ==
    IF expr.tag = "BinOp" THEN <<bin_op_token(expr.op)>> \o OperatorsOf(expr.right)
    ELSE <<>>

SomeOperandMultiline(expr) ==
    \E i \in DOMAIN OperandsOf(expr) : is_multiline(OperandsOf(expr)[i])

\* C21: in a right-nested chain of binary operators formatted at indent i,
\* if any operand is multiline every operator of the chain starts a line at
\* i + 4, otherwise every operator has a single space before it.
C21_UniformChainLayout ==
    (Formatted /\ fmt_expr \in ChainInputs) =>
       LET ops == OperatorsOf(fmt_expr)
       IN  \A k \in DOMAIN ops :
              /\ Cardinality(PositionsOf(ops[k], fmt_buf)) = 1
              /\ LET p == CHOOSE q \in PositionsOf(ops[k], fmt_buf) : TRUE
                 IN  IF SomeOperandMultiline(fmt_expr)
                       THEN StartsLineAt(fmt_buf, p, fmt_indent + 4)
                     ELSE /\ p > 2
                          /\ fmt_buf[p - 1] = " "
                          /\ fmt_buf[p - 2] \notin {" ", "\n"}

\* A chain of three operators at indent 4 whose last operand alone is
\* multiline.
C21_Witness ==
    /\ Formatted
    /\ fmt_expr \in ChainInputs
    /\ fmt_indent = 4
    /\ Len(OperandsOf(fmt_expr)) = 4
    /\ \A i \in 1 .. 3 : ~is_multiline(OperandsOf(fmt_expr)[i])
    /\ is_multiline(OperandsOf(fmt_expr)[4])

\* Every expression in a tree: the tree and the expressions below it.
RECURSIVE SubExprs(_), SubExprsOfField(_)
SubExprsOfAll(exprs) == UNION {SubExprs(exprs[i]) : i \in DOMAIN exprs}

SubExprsOfSegments(segments) ==
    UNION {IF segments[i].seg = "Interpolated" THEN SubExprs(segments[i].expr) ELSE {} :
              i \in DOMAIN segments}

SubExprsOfField(field) ==
    CASE field.tag \in {"RequiredValue", "OptionalValue"} -> SubExprs(field.ann)
      [] field.tag \in {"SpaceBefore", "SpaceAfter"} -> SubExprsOfField(field.field)
      [] OTHER -> {}

SubExprs(expr) ==
    {expr} \cup
    CASE expr.tag \in {"SpaceBefore", "SpaceAfter", "Access", "UnaryOp",
                       "PrecedenceConflict", "ParensAround", "Nested"} ->
            SubExprs(expr.expr)
      [] expr.tag = "Defs" -> SubExprs(expr.ret)
      [] expr.tag = "When" ->
            SubExprs(expr.loc_condition)
               \cup UNION {SubExprs(expr.branches[i].value)
                              \cup SubExprsOfAll(expr.branches[i].guard) :
                           i \in DOMAIN expr.branches}
      [] expr.tag = "List" -> SubExprsOfAll(expr.items)
      [] expr.tag = "Str" ->
            CASE expr.literal.kind = "Line" -> SubExprsOfSegments(expr.literal.segments)
              [] expr.literal.kind = "Block" ->
                    UNION {SubExprsOfSegments(expr.literal.lines[i]) :
                              i \in DOMAIN expr.literal.lines}
              [] OTHER -> {}
      [] expr.tag = "Apply" -> SubExprs(expr.expr) \cup SubExprsOfAll(expr.args)
      [] expr.tag = "If" ->
            SubExprs(expr.loc_condition) \cup SubExprs(expr.loc_then)
               \cup SubExprs(expr.loc_else)
      [] expr.tag = "BinOp" -> SubExprs(expr.left) \cup SubExprs(expr.right)
      [] expr.tag = "Closure" -> SubExprs(expr.body)
      [] expr.tag = "Record" ->
            SubExprsOfAll(expr.update)
               \cup UNION {SubExprsOfField(expr.fields[i]) : i \in DOMAIN expr.fields}
      [] OTHER -> {}

\* The rule each variant states for is_multiline, in terms of is_multiline of
\* the children.
MultilineRule(expr) ==
    CASE expr.tag \in {"SpaceBefore", "SpaceAfter", "Defs", "When"} -> TRUE
      [] expr.tag \in {"Float", "Num", "NonBase10Int", "Var", "GlobalTag", "PrivateTag",
                       "AccessorFunction", "Access", "MalformedIdent",
                       "MalformedClosure"} -> FALSE
      [] expr.tag = "Str" ->
            expr.literal.kind = "Block" /\ Len(expr.literal.lines) > 1
      [] expr.tag = "List" -> \E i \in DOMAIN expr.items : is_multiline(expr.items[i])
      [] expr.tag = "Record" ->
            \E i \in DOMAIN expr.fields : field_is_multiline(expr.fields[i])
      [] expr.tag = "Apply" ->
            is_multiline(expr.expr)
               \/ \E i \in DOMAIN expr.args : is_multiline(expr.args[i])
      [] expr.tag = "If" ->
            is_multiline(expr.loc_condition) \/ is_multiline(expr.loc_then)
               \/ is_multiline(expr.loc_else)
      [] expr.tag = "Closure" ->
            is_multiline(expr.body)
               \/ \E i \in DOMAIN expr.patterns : pattern_is_multiline(expr.patterns[i])
      [] expr.tag = "BinOp" -> is_multiline(expr.left) \/ is_multiline(expr.right)
      [] expr.tag \in {"UnaryOp", "ParensAround", "Nested", "PrecedenceConflict"} ->
            is_multiline(expr.expr)

\* C22: for every expression, is_multiline is what the rule of its variant
\* states; for BinOp, left or right multiline, the look-ahead into a
\* right-nested operator adding nothing.
C22_MultilinePerVariant ==
    Formatted => \A expr \in SubExprs(fmt_expr) : is_multiline(expr) = MultilineRule(expr)

\* A chain a op (b op c) in which only c, the operand the look-ahead reads,
\* is multiline.
C22_Witness ==
    /\ Formatted
    /\ fmt_expr.tag = "BinOp"
    /\ fmt_expr.right.tag = "BinOp"
    /\ ~is_multiline(fmt_expr.left)
    /\ ~is_multiline(fmt_expr.right.left)
    /\ is_multiline(fmt_expr.right.right)
    /\ is_multiline(fmt_expr)

\* The imports among dependencies: the root's own imports and the imports of
\* the root's name left out.
AmongDeps(imp) ==
    [m \in DOMAIN imp |-> IF m = RootName THEN {} ELSE imp[m] \ {RootName}]

\* Some dependency imports itself, directly or through other dependencies.
DepCycle(imp) ==
    \E m \in RootClosure(imp) \ {RootName} :
       m \in ReachFrom(AmongDeps(imp), AmongDeps(imp)[m])

\* C23: on an import graph of valid modules with an import cycle among
\* dependencies the coordinator loop eventually exits, with pending = 0,
\* one worker and one list entry for each dependency name, and every name of
\* the root's import closure loaded.
C23_CyclesTerminate ==
    (AllValid /\ DepCycle(Imports) /\ given = <<>>)
        => <>(/\ pc = "unwrap"
              /\ pending = 0
              /\ NamesOf(loaded_deps) = RootClosure(Imports)
              /\ \A n \in RootClosure(Imports) :
                    /\ Cardinality({w \in DepWorkers : workers[w].name = n}) = 1
                    /\ Cardinality({i \in DOMAIN loaded_deps :
                                       loaded_deps[i].name = n}) = 1)

\* The loop was left on a graph where A imports B and B imports A, or where
\* a dependency imports itself.
C23_Witness ==
    /\ pc = "unwrap"
    /\ given = <<>>
    /\ DepCycle(Imports)
    /\ \E a \in RootClosure(Imports) \ {RootName} :
          \/ a \in Imports[a]
          \/ \E b \in Imports[a] \ {RootName, a} : a \in Imports[b]

\* The coordinator waits in join_all for a worker that has not returned.
WaitsOnWorkers == pc = "join" /\ ~join_ready(batch)

\* A worker of the batch can take its next step.
SomeWorkerRuns ==
    \E w \in batch : ENABLED (WorkerHeader(w) \/ WorkerDefs(w))

Running == {w \in DOMAIN workers : workers[w].st # "returned"}

====
